---- MODULE Spec2Model ----
(***************************************************************************)
(* Model of the batch issuance pipeline of src/app.py: the job registry    *)
(* (_jobs, guarded by _jobs_lock), the background worker _run_generation,  *)
(* the submit handler generate() and the SSE read path job_status.stream.  *)
(*                                                                         *)
(* One job identifier J is ever allocated; G is an identifier that is      *)
(* never allocated.  A Python dict / list is an object that is reached     *)
(* through references: the job record `job` lives on after it was popped   *)
(* from the registry, and job.errors is a reference to a list object.      *)
(* Every action is one step that the interpreter cannot interleave with    *)
(* another thread in a way that matters: a `with _jobs_lock` block, one    *)
(* read of a field of the record, one file operation.                      *)
(***************************************************************************)
EXTENDS Integers, Sequences, FiniteSets, TLC

\* ---------------------------------------------------------------- bounds
MaxRows == 2        \* len(df) ranges over 0..MaxRows
MaxCount == 2       \* history counters saturate here
ErrCap == 5         \* job["errors"][:5]

Streams == {"s1", "s2"}   \* concurrent job_status requests
J == "J"                  \* the identifier generate() allocates
G == "G"                  \* an identifier that was never allocated

VARIABLES
  jobs,        \* _jobs: the set of identifiers in the registry
  job,         \* the dict object _jobs[J] (outlives its registry entry)
  gpc,         \* position of the generate() request
  wpc,         \* position of the worker thread _run_generation
  total,       \* worker local: len(df)
  idx,         \* worker local: enumerate index of the current row
  success_count, \* worker local
  errors,      \* content of the worker's list object `errors`
  zipf,        \* the file ZIPS/<job>.zip: whether it exists, and its entries
  inputs,      \* TRUE while the uploaded template/dataset/signature exist
  spc,         \* per stream: position in stream()
  target,      \* per stream: the job_id of the request
  st,          \* per stream: local `status` ("none" while it is dead)
  rd,          \* per stream: the fields read so far for a progress event
  payload,     \* per stream: zip bytes read (sequence of entries), NoFile while dead
  lastEv,      \* per stream: the event handed to the server at the current yield;
               \* a terminal event stays until the slot serves a new request
  seenDone,    \* per stream: "done" of the latest progress event of this request, -1 if none
  recTerminals, \* terminal events built from the record of J, all streams (saturating)
  doneEvents,  \* done events yielded for J, all streams (saturating)
  df,          \* the dataset load_data returns: column names and rows of cells
  ipc,         \* position of the data side: analyze, then the rows, then a lookup
  mapped,      \* the result of _compute_mapping of the analyze request
  iss,         \* row loop with its data: idx, success_count, errors, archive names, store
  lookup       \* the response of the last verify_api request

wvars == <<wpc, total, idx, success_count, errors, inputs>>
svars == <<spc, target, st, rd, payload, lastEv, seenDone, recTerminals, doneEvents>>
ivars == <<df, ipc, mapped, iss, lookup>>
jvars == <<jobs, job, gpc, zipf, wvars, svars>>
vars  == <<jvars, ivars>>

\* a file of entries on disk; NoFile is the absent file
NoFile  == [exists |-> FALSE, entries |-> <<>>]
EmptyZip == [exists |-> TRUE, entries |-> <<>>]
NoEvent == [type |-> "none"]
NoRead  == [done |-> -1, total |-> -1, success |-> -1]

Min(a, b) == IF a < b THEN a ELSE b
Bump(n)   == Min(n + 1, MaxCount)

\* ------------------------------------------------------------ job record
\* job.errors is a reference: "fresh" is an empty list created by a dict
\* literal (line 279) or by the call at line 162, "worker" is the worker's
\* own list object `errors` (lines 224, 247).
\* error_msg is [kind, first]: kind names the message text, first is the
\* per-row error quoted in it (<<>> when the text quotes none).
Msg(kind, first) == [kind |-> kind, first |-> first]
NoMsg == Msg("None", <<>>)

NullJob == [status |-> "none", done |-> 0, total |-> 0, success |-> 0,
            errors |-> "fresh", zip_path |-> FALSE, error_msg |-> NoMsg]

NewJob == [status |-> "queued", done |-> 0, total |-> 0, success |-> 0,
           errors |-> "fresh", zip_path |-> FALSE, error_msg |-> NoMsg]

\* the list job["errors"] refers to
JobErrors == IF job.errors = "worker" THEN errors ELSE <<>>

\* update(status, **kw): with _jobs_lock: _jobs[job_id].update({...})
update(status, kw) ==
  [f \in DOMAIN job |->
     IF f = "status" THEN status
     ELSE IF f \in DOMAIN kw THEN kw[f] ELSE job[f]]

Terminal(s) == s \in {"done", "error"}

\* ------------------------------------------------------------------ Init
\* the data side before any request: nothing analysed, issued or looked up
NoDf == [columns |-> <<>>, rows |-> <<>>]
NoMapping == [keys |-> <<>>, matched |-> <<>>, unmatched |-> <<>>]
NoIssue == [idx |-> 0, success_count |-> 0, errors |-> <<>>, arc |-> <<>>, db |-> {}]
NoLookup == [cert_id |-> 0, found |-> FALSE, valid |-> FALSE,
             certificate |-> [id |-> 0, recipient |-> <<>>, course |-> <<>>,
                              issue_date |-> <<>>]]

\* lines 20-34: the process has started, nothing was submitted
JobInit ==
  /\ jobs = {}
  /\ job = NullJob
  /\ gpc = "idle"
  /\ wpc = "none"
  /\ total = 0
  /\ idx = 0
  /\ success_count = 0
  /\ errors = <<>>
  /\ zipf = NoFile
  /\ inputs = TRUE
  /\ spc = [s \in Streams |-> "idle"]
  /\ target = [s \in Streams |-> G]
  /\ st = [s \in Streams |-> "none"]
  /\ rd = [s \in Streams |-> NoRead]
  /\ payload = [s \in Streams |-> NoFile]
  /\ lastEv = [s \in Streams |-> NoEvent]
  /\ seenDone = [s \in Streams |-> -1]
  /\ recTerminals = 0
  /\ doneEvents = 0

\* The concurrency of one job is explored with the row body reduced to its
\* outcome; the data side stays off.
Init ==
  /\ JobInit
  /\ df = NoDf
  /\ ipc = "off"
  /\ mapped = NoMapping
  /\ iss = NoIssue
  /\ lookup = NoLookup

\* ------------------------------------------------------------ generate()
\* lines 255-274: the session reference of the request and the uploads it
\* names: "" is the empty reference, "sess" names the files analyze() saved,
\* "gone" names a session without files.
Sids == {"", "sess", "gone"}

\* lines 259, 263-273: sid is not empty and listdir finds template and dataset
Found(sid) == sid = "sess" /\ inputs

\* Reject inserting the record before it validates the request
RejectAfterInsert ==
  /\ gpc \in {"idle", "rejected"}
  /\ \E sid \in Sids : ~Found(sid)
  /\ gpc' = "rejected"
  /\ jobs' = jobs \cup {J}
  /\ job' = NewJob
  /\ UNCHANGED <<ivars, zipf, wvars, svars>>

\* lines 259-260 and 273-274: return the 400 "Session expired" response
Reject ==
  /\ gpc \in {"idle", "rejected"}
  /\ \E sid \in Sids : ~Found(sid)
  /\ gpc' = "rejected"
  /\ UNCHANGED <<ivars, jobs, job, zipf, wvars, svars>>

\* lines 255-279: the files are found; allocate the identifier and insert
\* the record under the lock
Submit ==
  /\ gpc \in {"idle", "rejected"}
  /\ \E sid \in Sids : Found(sid)
  /\ gpc' = "inserted"
  /\ jobs' = jobs \cup {J}
  /\ job' = NewJob
  /\ UNCHANGED <<ivars, zipf, wvars, svars>>

\* lines 281-284: threading.Thread(target=_run_generation, ...).start()
StartWorker ==
  /\ gpc = "inserted"
  /\ gpc' = "started"
  /\ wpc' = "load"
  /\ UNCHANGED <<ivars, jobs, job, zipf, total, idx, success_count, errors, inputs, svars>>

\* line 286: return jsonify({"job_id": job_id})
Respond ==
  /\ gpc = "started"
  /\ gpc' = "returned"
  /\ UNCHANGED <<ivars, jobs, job, zipf, wvars, svars>>

\* ------------------------------------------------------ _run_generation
\* lines 150-155: extract_placeholders or load_data raised
ReadFail ==
  /\ wpc = "load"
  /\ job' = update("error", [error_msg |-> Msg("read", <<>>)])
  /\ wpc' = "fin"
  /\ UNCHANGED <<ivars, jobs, gpc, zipf, total, idx, success_count, errors, inputs, svars>>

\* lines 157-159: the template has no placeholders
NoPlaceholders ==
  /\ wpc = "load"
  /\ job' = update("error", [error_msg |-> Msg("noph", <<>>)])
  /\ wpc' = "fin"
  /\ UNCHANGED <<ivars, jobs, gpc, zipf, total, idx, success_count, errors, inputs, svars>>

\* lines 150-152, 157, 161: both loads returned, placeholders found, total = len(df)
Loaded ==
  /\ wpc = "load"
  /\ \E n \in 0..MaxRows : total' = n
  /\ wpc' = "running"
  /\ UNCHANGED <<ivars, jobs, job, gpc, zipf, idx, success_count, errors, inputs, svars>>

\* SetRunning with the status left out of the update
SetRunningKeepsStatus ==
  /\ wpc = "running"
  /\ job' = update(job.status, [total |-> total, done |-> 0, success |-> 0,
                                errors |-> "fresh"])
  /\ wpc' = "open"
  /\ UNCHANGED <<ivars, jobs, gpc, zipf, total, idx, success_count, errors, inputs, svars>>

\* line 162: update("running", total=total, done=0, success=0, errors=[])
SetRunning ==
  /\ wpc = "running"
  /\ job' = update("running", [total |-> total, done |-> 0, success |-> 0,
                               errors |-> "fresh"])
  /\ wpc' = "open"
  /\ UNCHANGED <<ivars, jobs, gpc, zipf, total, idx, success_count, errors, inputs, svars>>

\* lines 164-168: errors, success_count = [], 0; ZipFile(zip_path, "w") creates the file
OpenZip ==
  /\ wpc = "open"
  /\ zipf' = EmptyZip
  /\ errors' = <<>>
  /\ success_count' = 0
  /\ wpc' = "loop"
  /\ UNCHANGED <<ivars, jobs, job, gpc, total, idx, inputs, svars>>

\* lines 169-211: the row is rendered, stored, found on disk and written to the archive
RowOk ==
  /\ wpc = "loop"
  /\ idx < total
  /\ zipf' = [zipf EXCEPT !.entries = Append(@, idx)]
  /\ success_count' = success_count + 1
  /\ wpc' = "publish"
  /\ UNCHANGED <<ivars, jobs, job, gpc, total, idx, errors, inputs, svars>>

\* The ways one row fails: an exception anywhere in the row body, zf.write
\* included (line 216: "Row n: <text>"), or no output file after rendering
\* and storing (line 213: "Row n: PDF not created").
RowFaults == {"exc", "nopdf"}

\* RowError leaving the loop after recording the error
RowErrorBreaks(kind) ==
  /\ wpc = "loop"
  /\ idx < total
  /\ errors' = Append(errors, <<idx + 1, kind>>)
  /\ wpc' = "close"
  /\ UNCHANGED <<ivars, jobs, job, gpc, zipf, total, idx, success_count, inputs, svars>>

\* lines 212-216: errors.append(...); the append mutates the list object,
\* which is the record's own list once line 224 has run
RowError(kind) ==
  /\ wpc = "loop"
  /\ idx < total
  /\ errors' = Append(errors, <<idx + 1, kind>>)
  /\ wpc' = "publish"
  /\ UNCHANGED <<ivars, jobs, job, gpc, zipf, total, idx, success_count, inputs, svars>>

\* Publish writing the enumerate index instead of idx+1
PublishOffByOne ==
  /\ wpc = "publish"
  /\ job' = [job EXCEPT !.done = idx, !.success = success_count,
                        !.errors = "worker"]
  /\ idx' = idx + 1
  /\ wpc' = "loop"
  /\ UNCHANGED <<ivars, jobs, gpc, zipf, total, success_count, errors, inputs, svars>>

\* lines 223-224: with _jobs_lock: _jobs[job_id].update(done=idx+1, success=..., errors=errors)
Publish ==
  /\ wpc = "publish"
  /\ job' = [job EXCEPT !.done = idx + 1, !.success = success_count,
                        !.errors = "worker"]
  /\ idx' = idx + 1
  /\ wpc' = "loop"
  /\ UNCHANGED <<ivars, jobs, gpc, zipf, total, success_count, errors, inputs, svars>>

\* line 169: the iterator is exhausted
EndLoop ==
  /\ wpc = "loop"
  /\ idx = total
  /\ wpc' = "close"
  /\ UNCHANGED <<ivars, jobs, job, gpc, zipf, total, idx, success_count, errors, inputs, svars>>

\* line 168: leaving the with block closes the archive
CloseZip ==
  /\ wpc = "close"
  /\ wpc' = "cleanup"
  /\ UNCHANGED <<ivars, jobs, job, gpc, zipf, total, idx, success_count, errors, inputs, svars>>

\* lines 226-228: an exception outside the per-row try (ZipFile() could not
\* create the file, the row iterator raised, closing the archive raised)
FatalZip ==
  /\ wpc \in {"open", "loop", "close"}
  /\ job' = update("error", [error_msg |-> Msg("fatalzip", <<>>)])
  /\ wpc' = "cleanup_fatal"
  /\ UNCHANGED <<ivars, jobs, gpc, zipf, total, idx, success_count, errors, inputs, svars>>

\* lines 229-236: finally: remove template, dataset and signature image
Cleanup ==
  /\ wpc \in {"cleanup", "cleanup_fatal"}
  /\ inputs' = FALSE
  /\ wpc' = IF wpc = "cleanup" THEN "check" ELSE "fin"
  /\ UNCHANGED <<ivars, jobs, job, gpc, zipf, total, idx, success_count, errors, svars>>

\* AllFailed returning right after the update, the archive left in place
AllFailedKeepsZip ==
  /\ wpc = "check"
  /\ success_count = 0
  /\ job' = update("error",
       [error_msg |-> Msg("allfailed", IF errors # <<>> THEN errors[1] ELSE <<>>)])
  /\ wpc' = "fin"
  /\ UNCHANGED <<ivars, jobs, gpc, zipf, total, idx, success_count, errors, inputs, svars>>

\* lines 238-241: no row succeeded
AllFailed ==
  /\ wpc = "check"
  /\ success_count = 0
  /\ job' = update("error",
       [error_msg |-> Msg("allfailed", IF errors # <<>> THEN errors[1] ELSE <<>>)])
  /\ wpc' = "rm_zip"
  /\ UNCHANGED <<ivars, jobs, gpc, zipf, total, idx, success_count, errors, inputs, svars>>

\* DiscardZip also clearing the record's error list
DiscardZipClearsErrors ==
  /\ wpc = "rm_zip"
  /\ zipf' = NoFile
  /\ job' = [job EXCEPT !.errors = "fresh"]
  /\ wpc' = "fin"
  /\ UNCHANGED <<ivars, jobs, gpc, total, idx, success_count, errors, inputs, svars>>

\* lines 242-245: os.remove(zip_path)
DiscardZip ==
  /\ wpc = "rm_zip"
  /\ zipf' = NoFile
  /\ wpc' = "fin"
  /\ UNCHANGED <<ivars, jobs, job, gpc, total, idx, success_count, errors, inputs, svars>>

\* Finish held back until some request is being served
FinishWaitsForReader ==
  /\ wpc = "check"
  /\ success_count # 0
  /\ \E s \in Streams : spc[s] \notin {"idle", "end", "closed"}
  /\ job' = update("done", [zip_path |-> TRUE, success |-> success_count,
                            errors |-> "worker"])
  /\ wpc' = "fin"
  /\ UNCHANGED <<ivars, jobs, gpc, zipf, total, idx, success_count, errors, inputs, svars>>

\* line 247: update("done", zip_path=zip_path, success=success_count, errors=errors)
Finish ==
  /\ wpc = "check"
  /\ success_count # 0
  /\ job' = update("done", [zip_path |-> TRUE, success |-> success_count,
                            errors |-> "worker"])
  /\ wpc' = "fin"
  /\ UNCHANGED <<ivars, jobs, gpc, zipf, total, idx, success_count, errors, inputs, svars>>

Worker ==
  \/ ReadFail \/ NoPlaceholders \/ Loaded \/ SetRunning \/ OpenZip
  \/ RowOk \/ (\E k \in RowFaults : RowError(k)) \/ Publish \/ EndLoop
  \/ CloseZip \/ FatalZip \/ Cleanup \/ AllFailed \/ DiscardZip \/ Finish

\* ---------------------------------------------------- job_status.stream
\* The events stream() yields (the json.dumps payloads of lines 300-345).
Event(type, status, done, tot, success, nerr, errs, msg, zip) ==
  [type |-> type, status |-> status, done |-> done, total |-> tot,
   success |-> success, nerr |-> nerr, errs |-> errs, msg |-> msg, zip |-> zip]

\* line 300: {"type": "error", "message": "Job not found."}
NotFoundEvent == Event("error", "none", 0, 0, 0, 0, <<>>, Msg("notfound", <<>>), NoFile)
\* line 307: {"type": "error", "message": job.get("error_msg", ...)}
ErrorEvent == Event("error", "none", 0, 0, 0, 0, <<>>, job.error_msg, NoFile)
\* line 320: {"type": "error", "message": "Could not read ZIP: ..."}
ZipErrorEvent == Event("error", "none", 0, 0, 0, 0, <<>>, Msg("ziperr", <<>>), NoFile)
\* lines 323-329: {"type": "done", success, total, errors[:5], zip_b64}
DoneEvent(s) ==
  Event("done", "none", 0, job.total, job.success, 0,
        SubSeq(JobErrors, 1, Min(ErrCap, Len(JobErrors))), NoMsg, payload[s])
\* lines 337-344: {"type": "progress", status, done, total, success, errors: len(...)}
ProgressEvent(s) ==
  Event("progress", st[s], rd[s].done, rd[s].total, rd[s].success,
        Len(JobErrors), <<>>, NoMsg, NoFile)

\* yield f"data: {data}\n\n": the generator hands one event to the server
Yield(s, ev) ==
  /\ lastEv' = [lastEv EXCEPT ![s] = ev]
  /\ seenDone' = [seenDone EXCEPT ![s] = IF ev.type = "progress" THEN ev.done ELSE @]

\* lines 292-294: a GET /api/job/<job_id> request arrives.  The identifier
\* J is known to a client only from the response of generate().
Open(s, id) ==
  /\ spc[s] \in {"idle", "end", "closed"}
  /\ id = J => gpc = "returned"
  /\ spc' = [spc EXCEPT ![s] = "lookup"]
  /\ target' = [target EXCEPT ![s] = id]
  /\ st' = [st EXCEPT ![s] = "none"]
  /\ rd' = [rd EXCEPT ![s] = NoRead]
  /\ payload' = [payload EXCEPT ![s] = NoFile]
  /\ lastEv' = [lastEv EXCEPT ![s] = NoEvent]
  /\ seenDone' = [seenDone EXCEPT ![s] = -1]
  /\ UNCHANGED <<ivars, jobs, job, gpc, zipf, wvars, recTerminals, doneEvents>>

\* lines 296-302: with _jobs_lock: job = _jobs.get(job_id); None -> not found
Lookup(s) ==
  /\ spc[s] = "lookup"
  /\ IF target[s] \in jobs
       THEN /\ spc' = [spc EXCEPT ![s] = "status"]
            /\ UNCHANGED <<lastEv, seenDone>>
       ELSE /\ Yield(s, NotFoundEvent)
            /\ spc' = [spc EXCEPT ![s] = "y_notfound"]
  /\ UNCHANGED <<ivars, jobs, job, gpc, zipf, wvars, target, st, rd, payload, recTerminals, doneEvents>>

\* lines 304-313, 335: status = job["status"], read without the lock, and
\* the branch on it; the error branch yields the record's message
ReadStatus(s) ==
  /\ spc[s] = "status"
  /\ IF job.status = "error"
       THEN /\ Yield(s, ErrorEvent)
            /\ recTerminals' = Bump(recTerminals)
            /\ spc' = [spc EXCEPT ![s] = "y_error"]
            /\ UNCHANGED <<st, doneEvents>>
       ELSE IF job.status = "done"
       THEN /\ spc' = [spc EXCEPT ![s] = "zip_open"]
            /\ UNCHANGED <<st, lastEv, seenDone, recTerminals, doneEvents>>
       ELSE /\ st' = [st EXCEPT ![s] = job.status]
            /\ spc' = [spc EXCEPT ![s] = "rd_done"]
            /\ UNCHANGED <<lastEv, seenDone, recTerminals, doneEvents>>
  /\ UNCHANGED <<ivars, jobs, job, gpc, zipf, wvars, target, rd, payload>>

\* line 340: job["done"]
ReadDone(s) ==
  /\ spc[s] = "rd_done"
  /\ rd' = [rd EXCEPT ![s].done = job.done]
  /\ spc' = [spc EXCEPT ![s] = "rd_total"]
  /\ UNCHANGED <<ivars, jobs, job, gpc, zipf, wvars, target, st, payload, lastEv,
                 seenDone, recTerminals, doneEvents>>

\* line 341: job["total"]
ReadTotal(s) ==
  /\ spc[s] = "rd_total"
  /\ rd' = [rd EXCEPT ![s].total = job.total]
  /\ spc' = [spc EXCEPT ![s] = "rd_success"]
  /\ UNCHANGED <<ivars, jobs, job, gpc, zipf, wvars, target, st, payload, lastEv,
                 seenDone, recTerminals, doneEvents>>

\* line 342: job["success"]
ReadSuccess(s) ==
  /\ spc[s] = "rd_success"
  /\ rd' = [rd EXCEPT ![s].success = job.success]
  /\ spc' = [spc EXCEPT ![s] = "rd_errors"]
  /\ UNCHANGED <<ivars, jobs, job, gpc, zipf, wvars, target, st, payload, lastEv,
                 seenDone, recTerminals, doneEvents>>

\* lines 343-345: len(job["errors"]), then the progress event is yielded
EmitProgress(s) ==
  /\ spc[s] = "rd_errors"
  /\ Yield(s, ProgressEvent(s))
  /\ rd' = [rd EXCEPT ![s] = NoRead]
  /\ st' = [st EXCEPT ![s] = "none"]
  /\ spc' = [spc EXCEPT ![s] = "y_progress"]
  /\ UNCHANGED <<ivars, jobs, job, gpc, zipf, wvars, target, payload, recTerminals, doneEvents>>

\* line 346 and line 295: time.sleep(0.8), then the next turn of the loop
Sleep(s) ==
  /\ spc[s] = "y_progress"
  /\ spc' = [spc EXCEPT ![s] = "lookup"]
  /\ lastEv' = [lastEv EXCEPT ![s] = NoEvent]
  /\ UNCHANGED <<ivars, jobs, job, gpc, zipf, wvars, target, st, rd, payload, seenDone,
                 recTerminals, doneEvents>>

\* lines 314-317 (319-322 on failure): open(zip_path, "rb") and f.read()
ZipOpen(s) ==
  /\ spc[s] = "zip_open"
  /\ IF job.zip_path /\ zipf.exists
       THEN /\ payload' = [payload EXCEPT ![s] = zipf]
            /\ spc' = [spc EXCEPT ![s] = "zip_rm"]
            /\ UNCHANGED <<lastEv, seenDone>>
       ELSE /\ Yield(s, ZipErrorEvent)
            /\ spc' = [spc EXCEPT ![s] = "y_ziperr"]
            /\ UNCHANGED payload
  /\ UNCHANGED <<ivars, jobs, job, gpc, zipf, wvars, target, st, rd, recTerminals, doneEvents>>

\* ZipRemove swallowing the failure of os.remove
ZipRemoveIgnoresMissing(s) ==
  /\ spc[s] = "zip_rm"
  /\ zipf' = NoFile
  /\ spc' = [spc EXCEPT ![s] = "mk_done"]
  /\ UNCHANGED <<ivars, jobs, job, gpc, wvars, target, st, rd, payload, lastEv, seenDone,
                 recTerminals, doneEvents>>

\* line 318 (319-322 on failure): os.remove(zip_path)
ZipRemove(s) ==
  /\ spc[s] = "zip_rm"
  /\ IF zipf.exists
       THEN /\ zipf' = NoFile
            /\ spc' = [spc EXCEPT ![s] = "mk_done"]
            /\ UNCHANGED <<lastEv, seenDone, payload>>
       ELSE /\ Yield(s, ZipErrorEvent)
            /\ spc' = [spc EXCEPT ![s] = "y_ziperr"]
            /\ payload' = [payload EXCEPT ![s] = NoFile]
            /\ UNCHANGED zipf
  /\ UNCHANGED <<ivars, jobs, job, gpc, wvars, target, st, rd, recTerminals, doneEvents>>

\* lines 323-330: the done event is built from the record and yielded
EmitDone(s) ==
  /\ spc[s] = "mk_done"
  /\ Yield(s, DoneEvent(s))
  /\ recTerminals' = Bump(recTerminals)
  /\ doneEvents' = Bump(doneEvents)
  /\ payload' = [payload EXCEPT ![s] = NoFile]
  /\ spc' = [spc EXCEPT ![s] = "y_done"]
  /\ UNCHANGED <<ivars, jobs, job, gpc, zipf, wvars, target, st, rd>>

\* lines 309-311 and 331-333: with _jobs_lock: _jobs.pop(job_id, None); return
Dispose(s) ==
  /\ spc[s] \in {"y_error", "y_done"}
  /\ jobs' = jobs \ {target[s]}
  /\ spc' = [spc EXCEPT ![s] = "end"]
  /\ UNCHANGED <<ivars, job, gpc, zipf, wvars, target, st, rd, payload, lastEv,
                 seenDone, recTerminals, doneEvents>>

\* Return missing after the not-found event: the loop takes another turn
ReturnLoops(s) ==
  /\ spc[s] \in {"y_notfound", "y_ziperr"}
  /\ spc' = [spc EXCEPT ![s] = IF spc[s] = "y_notfound" THEN "lookup" ELSE "end"]
  /\ UNCHANGED <<ivars, jobs, job, gpc, zipf, wvars, target, st, rd, payload, lastEv,
                 seenDone, recTerminals, doneEvents>>

\* lines 302 and 322: return
Return(s) ==
  /\ spc[s] \in {"y_notfound", "y_ziperr"}
  /\ spc' = [spc EXCEPT ![s] = "end"]
  /\ UNCHANGED <<ivars, jobs, job, gpc, zipf, wvars, target, st, rd, payload, lastEv,
                 seenDone, recTerminals, doneEvents>>

\* The client goes away while the generator is suspended at a yield: the
\* server closes the generator and nothing after the yield runs.
Disconnect(s) ==
  /\ spc[s] \in {"y_notfound", "y_error", "y_ziperr", "y_done", "y_progress"}
  /\ spc' = [spc EXCEPT ![s] = "closed"]
  /\ lastEv' = [lastEv EXCEPT ![s] = IF @.type = "progress" THEN NoEvent ELSE @]
  /\ UNCHANGED <<ivars, jobs, job, gpc, zipf, wvars, target, st, rd, payload, seenDone,
                 recTerminals, doneEvents>>

Stream(s) ==
  \/ (\E id \in {J, G} : Open(s, id)) \/ Lookup(s) \/ ReadStatus(s)
  \/ ReadDone(s) \/ ReadTotal(s) \/ ReadSuccess(s) \/ EmitProgress(s) \/ Sleep(s)
  \/ ZipOpen(s) \/ ZipRemove(s) \/ EmitDone(s) \/ Dispose(s) \/ Return(s)
  \/ Disconnect(s)

\* ------------------------------------------------------- specifications
Next ==
  \/ Reject \/ Submit \/ StartWorker \/ Respond
  \/ Worker
  \/ \E s \in Streams : Stream(s)

Spec == Init /\ [][Next]_vars

\* Liveness is checked with one request slot, which may serve any number of
\* requests one after the other.
LiveStreams == {"s1"}

NextLive ==
  \/ Reject \/ Submit \/ StartWorker \/ Respond
  \/ Worker
  \/ \E s \in LiveStreams : Stream(s)

\* The request thread of generate() reaches t.start(), and the worker is a
\* thread of its own that keeps being scheduled; its collaborators return.
\* Nothing is assumed about the streams.
FairSpec == Init /\ [][NextLive]_vars /\ WF_vars(StartWorker) /\ WF_vars(Worker)

\* =====================================================================
\* The data side of one job: what _compute_mapping and the row body of
\* _run_generation compute from the column names and the cell values.
\* A Python str is a sequence of one-character strings.
\* =====================================================================

\* ---------------------------------------------------------------- bounds
MaxCols == 3        \* len(df.columns) ranges over 1..MaxCols
MaxDataRows == 2    \* len(df) ranges over 0..MaxDataRows
MaxKeys == 2        \* number of placeholder keys of the template

\* the column names a dataset may use
ColNames ==
  {<<"n", "a", "m", "e">>,
   <<"N", "a", "m", "e", " ">>,
   <<"s", "t", "u", "d", "e", "n", "t">>,
   <<"c", "o", "u", "r", "s", "e">>,
   <<" ", "D", "A", "T", "E">>,
   <<"c", "i", "t", "y">>}

\* the values a cell of the first column may hold
Values ==
  {<<>>,
   <<" ", "a">>,
   <<"a", "/">>,
   <<"a", "_">>}

\* the placeholder keys a template may hold (lower-case, no blanks around)
KeyNames ==
  {<<"n", "a", "m", "e">>,
   <<"c", "o", "u", "r", "s", "e">>,
   <<"c", "i", "t", "y">>}

\* str.lower() on the characters that occur
LowerChar(c) ==
  CASE c = "N" -> "n" [] c = "A" -> "a" [] c = "M" -> "m" [] c = "E" -> "e"
    [] c = "D" -> "d" [] c = "T" -> "t" [] OTHER -> c

Lower(str) == [i \in 1..Len(str) |-> LowerChar(str[i])]

\* str.strip(): leading and trailing blanks removed
RECURSIVE LStrip(_)
LStrip(str) ==
  IF str # <<>> /\ Head(str) = " " THEN LStrip(Tail(str)) ELSE str

RECURSIVE RStrip(_)
RStrip(str) ==
  IF str # <<>> /\ str[Len(str)] = " "
    THEN RStrip(SubSeq(str, 1, Len(str) - 1)) ELSE str

Strip(str) == RStrip(LStrip(str))

\* lines 145-148: safe_str(val) for a value that is a str
safe_str(val) == Strip(val)

\* str(n) for a small number
Digits == <<"0", "1", "2", "3", "4", "5", "6", "7", "8", "9">>
StrOfNat(n) == <<Digits[n + 1]>>

\* c.isalnum() on the characters that occur
Letters ==
  {"a", "b", "c", "d", "e", "f", "g", "h", "i", "j", "k", "l", "m", "n", "o", "p",
   "q", "r", "s", "t", "u", "v", "w", "x", "y", "z", "A", "D", "E", "M", "N", "T"}
IsAlnum(c) == c \in Letters \/ \E k \in 1..Len(Digits) : Digits[k] = c

\* line 175: f"certificate_{idx+1}"
FallbackName(ridx) == <<"c", "e", "r", "t", "i", "f", "i", "c", "a", "t", "e", "_">> \o StrOfNat(ridx + 1)

\* line 176: "".join(c if c.isalnum() or c in " _-" else "_" for c in fname_val)
Sanitize(str) ==
  [i \in 1..Len(str) |->
     IF IsAlnum(str[i]) \/ str[i] \in {" ", "_", "-"} THEN str[i] ELSE "_"]

\* lines 173-176: the archive entry name of the row of index ridx, without ".pdf"
safe_name(first, ridx) ==
  LET v == safe_str(first)
      fname_val == IF v = <<>> \/ Lower(v) = <<"n", "a", "n">> THEN FallbackName(ridx) ELSE v
      cleaned == Strip(Sanitize(fname_val))
  IN  IF cleaned # <<>> THEN cleaned ELSE FallbackName(ridx)

\* line 210: arcname=f"{safe_name}.pdf"
ArcName(first, ridx) == safe_name(first, ridx) \o <<".", "p", "d", "f">>

\* lines 183-187: the synonyms of the three canonical fields
NameSynonyms ==
  {<<"n", "a", "m", "e">>, <<"s", "t", "u", "d", "e", "n", "t">>, <<"r", "e", "c", "i", "p", "i", "e", "n", "t">>, <<"f", "u", "l", "l", "_", "n", "a", "m", "e">>}
CourseSynonyms ==
  {<<"c", "o", "u", "r", "s", "e">>, <<"s", "u", "b", "j", "e", "c", "t">>, <<"p", "r", "o", "g", "r", "a", "m">>, <<"c", "o", "u", "r", "s", "e", "_", "n", "a", "m", "e">>}
DateSynonyms ==
  {<<"d", "a", "t", "e">>, <<"i", "s", "s", "u", "e", "_", "d", "a", "t", "e">>, <<"c", "o", "m", "p", "l", "e", "t", "i", "o", "n", "_", "d", "a", "t", "e">>, <<"c", "e", "r", "t", "_", "d", "a", "t", "e">>}

\* line 194: datetime.now().strftime('%Y-%m-%d'), one fixed day
Today == <<"T">>

\* the value of row[df.columns[i]] after safe_str
Cell(row, i) == safe_str(row[i])

\* lines 181-188: the loop over df.columns; cd is cert_data, a function
\* from the keys set so far; every matching column assigns its key again
RECURSIVE ScanColumns(_, _, _, _)
ScanColumns(cols, row, i, cd) ==
  IF i > Len(cols) THEN cd
  ELSE LET cl == Strip(Lower(cols[i]))
           put(k) == [f \in DOMAIN cd \cup {k} |-> IF f = k THEN Cell(row, i) ELSE cd[f]]
       IN  ScanColumns(cols, row, i + 1,
             IF cl \in NameSynonyms THEN put("name")
             ELSE IF cl \in CourseSynonyms THEN put("course")
             ELSE IF cl \in DateSynonyms THEN put("date")
             ELSE cd)

Unknown == <<"U", "n", "k", "n", "o", "w", "n">>

\* lines 180-194: cert_data of one row
DeriveCertData(cols, row, cert_id) ==
  LET cd == ScanColumns(cols, row, 1, [f \in {"cert_id"} |-> cert_id])
      name   == IF "name" \in DOMAIN cd THEN cd["name"]
                ELSE IF Len(cols) > 0 THEN Cell(row, 1) ELSE Unknown
      course == IF "course" \in DOMAIN cd THEN cd["course"]
                ELSE IF Len(cols) > 1 THEN Cell(row, 2) ELSE Unknown
      date   == IF "date" \in DOMAIN cd THEN cd["date"]
                ELSE IF Len(cols) > 2 THEN Cell(row, 3) ELSE Today
  IN  [cert_id |-> cert_id, name |-> name, course |-> course, date |-> date]

\* lines 37-45: _compute_mapping.  col_map is built by a dict comprehension,
\* so a later column replaces an earlier one with the same stripped,
\* lower-cased name; the key is looked up as it is.
ColMapHas(cols, key) == \E i \in 1..Len(cols) : Lower(Strip(cols[i])) = key

ColMapGet(cols, key) ==
  LET last == CHOOSE i \in 1..Len(cols) :
                /\ Lower(Strip(cols[i])) = key
                /\ \A j \in (i + 1)..Len(cols) : Lower(Strip(cols[j])) # key
  IN  cols[last]

compute_mapping(df_columns, placeholder_keys) ==
  LET InMap(k) == ColMapHas(df_columns, k)
      NotInMap(k) == ~ColMapHas(df_columns, k)
      hits == SelectSeq(placeholder_keys, InMap)
  IN  [keys |-> placeholder_keys,
       matched |-> [i \in 1..Len(hits) |->
                      [placeholder |-> hits[i], column |-> ColMapGet(df_columns, hits[i])]],
       unmatched |-> SelectSeq(placeholder_keys, NotInMap)]

\* ------------------------------------------------- utils.crypto_utils
\* line 17: SECRET_KEY
SECRET_KEY == "udemy-123"

\* generate_certificate_id(): a fresh identifier that does not depend on
\* the row; the n-th identifier generated is n
generate_certificate_id(n) == n

\* the serialization of the four canonical fields, fixed order and delimiter
Serialize(cd) ==
  StrOfNat(cd.cert_id) \o <<"|">> \o cd.name \o <<"|">> \o cd.course \o <<"|">> \o cd.date

\* sign_certificate(cert_data, secret): a keyed tag over the serialization
sign_certificate(cd, secret) == [key |-> secret, msg |-> Serialize(cd)]

\* compute_certificate_hash(cert_data): an unkeyed digest over the same
compute_certificate_hash(cd) == [digest |-> Serialize(cd)]

\* verify_signature(cert_data, signature, secret): recompute and compare
verify_signature(cd, signature, secret) == sign_certificate(cd, secret) = signature

\* ----------------------------------------------------- utils.database
\* store_certificate(...): the record is kept under its identifier
store_certificate(db, rec) == {r \in db : r.cert_id # rec.cert_id} \cup {rec}

\* get_certificate(cert_id): the record, or None
HasCertificate(db, cert_id) == \E r \in db : r.cert_id = cert_id
get_certificate(db, cert_id) == CHOOSE r \in db : r.cert_id = cert_id

\* ------------------------------------------------------- the datasets
Injective(q) == \A i, j \in DOMAIN q : i # j => q[i] # q[j]

\* column lists: 1..MaxCols distinct names
ColumnLists ==
  UNION {{q \in [1..n -> ColNames] : Injective(q)} : n \in 1..MaxCols}

\* the cell of row r (from 1) in column c > 1
CellToken(r, c) == <<"r", Digits[r + 1], "c", Digits[c + 1]>>

\* the rows of a dataset with n columns whose first cells are firsts
RowsOf(n, firsts) ==
  [r \in 1..Len(firsts) |->
     [c \in 1..n |-> IF c = 1 THEN firsts[r] ELSE CellToken(r, c)]]

Datasets ==
  {[columns |-> cols, rows |-> RowsOf(Len(cols), firsts)] :
     cols \in ColumnLists,
     firsts \in UNION {[1..m -> Values] : m \in 0..MaxDataRows}}

\* placeholder key lists: 1..MaxKeys distinct keys (a dict's keys)
KeyLists ==
  UNION {{q \in [1..n -> KeyNames] : Injective(q)} : n \in 1..MaxKeys}

\* The data side of one session: load_data has returned some dataset.
IssueInit ==
  /\ JobInit
  /\ df \in Datasets
  /\ ipc = "analyze"
  /\ mapped = NoMapping
  /\ iss = NoIssue
  /\ lookup = NoLookup

\* lines 104-110: analyze() computes the mapping for the template's keys
Analyze ==
  /\ ipc = "analyze"
  /\ \E keys \in KeyLists : mapped' = compute_mapping(df.columns, keys)
  /\ ipc' = "analyzed"
  /\ UNCHANGED <<jvars, df, iss, lookup>>

\* lines 116-125 and 161-168: the mapping went out with the response and is
\* not kept; generate() starts the job and the loop begins
BeginIssue ==
  /\ ipc = "analyzed"
  /\ mapped' = NoMapping
  /\ ipc' = "rows"
  /\ UNCHANGED <<jvars, df, iss, lookup>>

\* What happens to one row: "render_exc" generate_certificate (or anything
\* before the store) raises; "nopdf" no output file; "zip_exc" zf.write
\* raises; "ok".
Outcomes == {"ok", "render_exc", "nopdf", "zip_exc"}

\* StoreRecord with name and course handed over in the wrong order
StoreRecordSwapped(cd, signature, data_hash) ==
  [cert_id |-> cd.cert_id, name |-> cd.course, course |-> cd.name,
   date |-> cd.date, signature |-> signature, data_hash |-> data_hash]

\* lines 206-207: the arguments app.py hands to store_certificate
StoreRecord(cd, signature, data_hash) ==
  [cert_id |-> cd.cert_id, name |-> cd.name, course |-> cd.course,
   date |-> cd.date, signature |-> signature, data_hash |-> data_hash]

\* lines 169-220: the body of the loop for the row of index iss.idx
IssueRow(outcome) ==
  /\ ipc = "rows"
  /\ iss.idx < Len(df.rows)
  /\ LET row == df.rows[iss.idx + 1]
         cert_id == generate_certificate_id(iss.idx + 1)
         cert_data == DeriveCertData(df.columns, row, cert_id)
         signature == sign_certificate(cert_data, SECRET_KEY)
         data_hash == compute_certificate_hash(cert_data)
         stored == outcome # "render_exc"
     IN  iss' = [idx |-> iss.idx + 1,
                 success_count |-> iss.success_count + (IF outcome = "ok" THEN 1 ELSE 0),
                 errors |-> IF outcome = "ok" THEN iss.errors
                            ELSE Append(iss.errors,
                                   <<iss.idx + 1, IF outcome = "nopdf" THEN "nopdf" ELSE "exc">>),
                 arc |-> IF outcome = "ok"
                           THEN Append(iss.arc, ArcName(row[1], iss.idx))
                           ELSE iss.arc,
                 db |-> IF stored
                          THEN store_certificate(iss.db,
                                 StoreRecord(cert_data, signature, data_hash))
                          ELSE iss.db]
  /\ UNCHANGED <<jvars, df, ipc, mapped, lookup>>

\* line 169: the iterator is exhausted
EndIssue ==
  /\ ipc = "rows"
  /\ iss.idx = Len(df.rows)
  /\ ipc' = "issued"
  /\ UNCHANGED <<jvars, df, mapped, iss, lookup>>

\* lines 70-71: the fields verify_api hands to verify_signature
LookupData(cert) ==
  [cert_id |-> cert.cert_id, name |-> cert.name, course |-> cert.course,
   date |-> cert.date]

\* lines 65-76: verify_api(cert_id)
VerifyApi(cert_id) ==
  /\ ipc \in {"issued", "verified"}
  /\ lookup' =
       IF ~HasCertificate(iss.db, cert_id)
         THEN [NoLookup EXCEPT !.cert_id = cert_id]
         ELSE LET cert == get_certificate(iss.db, cert_id)
              IN  [cert_id |-> cert_id, found |-> TRUE,
                   valid |-> verify_signature(LookupData(cert), cert.signature, SECRET_KEY),
                   certificate |-> [id |-> cert.cert_id, recipient |-> cert.name,
                                    course |-> cert.course, issue_date |-> cert.date]]
  /\ ipc' = "verified"
  /\ UNCHANGED <<jvars, df, mapped, iss>>

IssueNext ==
  \/ Analyze \/ BeginIssue
  \/ (\E o \in Outcomes : IssueRow(o)) \/ EndIssue
  \/ \E id \in 0..(MaxDataRows + 1) : VerifyApi(id)

IssueSpec == IssueInit /\ [][IssueNext]_vars

\* ------------------------------------------------------------ properties

\* C1: a row that fails appends exactly one error entry, for that row, and
\* the worker goes on to publish it and take the next row without touching
\* the status; when the loop has run out with a success, the job becomes
\* done with done = total, success + number of errors = total, and the
\* archive holds exactly success entries.
C1_RowIsolation ==
  /\ [][(wpc = "loop" /\ wpc' = "publish" /\ success_count' = success_count)
          => /\ errors' \in {Append(errors, <<idx + 1, k>>) : k \in RowFaults}
             /\ job' = job
             /\ job.status = "running"]_vars
  /\ [][(wpc = "loop" /\ idx < total) => wpc' \in {"loop", "publish", "cleanup_fatal"}]_vars
  /\ [][wpc = "publish" => (wpc' = "publish" \/ (wpc' = "loop" /\ idx' = idx + 1))]_vars
  /\ [](wpc = "check" => idx = total)
  /\ [][(wpc = "check" /\ success_count > 0 /\ wpc' # "check")
          => /\ job'.status = "done"
             /\ job'.total = total
             /\ job'.done = total
             /\ job'.success = success_count
             /\ job'.success + Len(JobErrors') = total
             /\ zipf'.exists
             /\ Len(zipf'.entries) = job'.success]_vars

C1_Witness ==
  /\ job.status = "done"
  /\ job.success = 1
  /\ Len(JobErrors) = 1
  /\ zipf.exists

\* C2: when the loop has run out with no success, the job becomes error,
\* never done; with at least one row the message quotes the first recorded
\* row error; once the worker has finished, the archive is gone.
C2_AllFailed ==
  /\ [][(wpc = "check" /\ success_count = 0 /\ wpc' # "check")
          => /\ job'.status = "error"
             /\ job'.error_msg.kind = "allfailed"
             /\ total > 0 => (errors # <<>> /\ job'.error_msg.first = errors[1])]_vars
  /\ [](job.error_msg.kind = "allfailed" => job.status = "error")
  /\ []((wpc = "fin" /\ job.error_msg.kind = "allfailed") => zipf = NoFile)

C2_Witness ==
  /\ wpc = "fin"
  /\ job.status = "error"
  /\ job.error_msg.kind = "allfailed"
  /\ job.error_msg.first = <<1, "nopdf">>
  /\ zipf = NoFile

\* C3 as stated: every status change is queued -> running, running -> done
\* or running -> error (after the insertion of the queued record).
C3_Original ==
  [][job'.status # job.status
       => <<job.status, job'.status>> \in
            {<<"none", "queued">>, <<"queued", "running">>,
             <<"running", "done">>, <<"running", "error">>}]_vars

\* C3 amended: the status changes are queued -> running, running -> done,
\* running -> error and queued -> error; the last one happens exactly for
\* the read failure and the no-placeholders failure, which are detected
\* while the record is still queued; running is entered only after the
\* loads, and done is reached only from running.
C3_StateMachine ==
  /\ [][job'.status # job.status
          => <<job.status, job'.status>> \in
               {<<"none", "queued">>, <<"queued", "running">>,
                <<"running", "done">>, <<"running", "error">>,
                <<"queued", "error">>}]_vars
  /\ [][(job.status = "queued" /\ job'.status = "error")
          => job'.error_msg.kind \in {"read", "noph"}]_vars
  /\ [][(job.status = "running" /\ job'.status = "error")
          => job'.error_msg.kind \in {"fatalzip", "allfailed"}]_vars
  /\ [](wpc = "load" => job.status = "queued")
  /\ [](wpc \in {"open", "loop", "publish", "close", "cleanup", "check"}
          => job.status = "running")

C3_Witness ==
  /\ job.status = "error"
  /\ job.error_msg.kind \in {"read", "noph"}
  /\ wpc = "fin"

\* C4: once the status is done or error, no step changes the record: its
\* status, total, done, success, zip_path, error_msg and the content of its
\* errors list stay as they are (the registry entry may be removed).
C4_TerminalFrozen ==
  [][Terminal(job.status) => (job' = job /\ JobErrors' = JobErrors)]_vars

C4_Witness ==
  /\ job.status = "done"
  /\ J \notin jobs
  /\ Len(JobErrors) > 0

\* C5 as stated: every progress event carries counters that fit together,
\* success + errors = done.
C5_NoTornProgress ==
  \A s \in Streams :
    lastEv[s].type = "progress" => lastEv[s].success + lastEv[s].nerr = lastEv[s].done

\* C6: done starts at 0, changes only by +1, to the number of the row just
\* processed, never exceeds total, and the done values of the successive
\* progress events of one request never decrease.
C6_DoneMonotone ==
  /\ [](job.status \in {"none", "queued"} => job.done = 0)
  /\ [](job.done <= job.total)
  /\ [][job'.done = job.done \/ (job'.done = job.done + 1 /\ job'.done = idx + 1
                                  /\ idx' = idx + 1)]_vars
  /\ [][\A s \in Streams :
          (seenDone[s] # -1 /\ seenDone'[s] # -1) => seenDone'[s] >= seenDone[s]]_vars

C6_Witness ==
  \E s \in Streams : lastEv[s].type = "progress" /\ seenDone[s] = 2 /\ job.done = 2

\* C7: under FairSpec every inserted job reaches done or error, whatever
\* the streams do.
C7_Terminates == (gpc = "inserted") ~> Terminal(job.status)

C7_Witness ==
  /\ Terminal(job.status)
  /\ \A s \in Streams : spc[s] = "idle"

\* C8 as stated: a stream that has ended after a terminal event for a job
\* it found in the registry leaves the job removed from the registry.
C8_DisposedAfterTerminal ==
  \A s \in Streams :
    (spc[s] = "end" /\ lastEv[s].type \in {"error", "done"}
       /\ lastEv[s].msg.kind # "notfound")
      => target[s] \notin jobs

\* C9 as stated: over all streams, at most one terminal event (the error
\* event carrying error_msg, or the done event) is built from the record of
\* a job.
C9_ObservedOnce == recTerminals <= 1

\* C10: while a request waits for its first lookup an absent identifier
\* stays absent; that lookup yields the not-found event; after it the
\* stream yields nothing more and ends.
C10_NotFoundOnce ==
  /\ [][\A s \in Streams :
          (spc[s] = "lookup" /\ target[s] \notin jobs) => target[s] \notin jobs']_vars
  /\ [][\A s \in Streams :
          (spc[s] = "lookup" /\ seenDone[s] = -1 /\ target[s] \notin jobs
             /\ spc'[s] # "lookup")
            => (spc'[s] = "y_notfound" /\ lastEv'[s] = NotFoundEvent)]_vars
  /\ [](\A s \in Streams : spc[s] = "y_notfound" => lastEv[s] = NotFoundEvent)
  /\ [][\A s \in Streams :
          spc[s] = "y_notfound"
            => (spc'[s] \in {"y_notfound", "end", "closed"} /\ lastEv'[s] = lastEv[s])]_vars

C10_Witness ==
  \E s \in Streams :
    /\ spc[s] = "end"
    /\ target[s] = J
    /\ seenDone[s] = -1
    /\ lastEv[s] = NotFoundEvent

\* C11 as stated: once the worker has finished with the job in a terminal
\* status, the uploaded template, dataset and signature image are removed.
C11_InputsRemoved ==
  (wpc = "fin" /\ Terminal(job.status)) => ~inputs

\* C12 as stated: when no request for the job was ever made and the worker
\* has finished with the job in a terminal status, no archive is on disk.
C12_NoArchiveLeak ==
  (wpc = "fin" /\ Terminal(job.status) /\ \A s \in Streams : spc[s] = "idle")
    => ~zipf.exists

\* C19 as stated: in every state the record has success + len(errors) = done
\* and done <= total, and the list its errors field refers to changes only
\* in a step that writes the record under the lock.
C19_RecordInvariant ==
  /\ [](job.success + Len(JobErrors) = job.done /\ job.done <= job.total)
  /\ [][JobErrors' # JobErrors => job' # job]_vars

\* C13: a request without a session reference or without uploaded template
\* and dataset is rejected and leaves the registry, the record and the
\* worker as they were; otherwise the record is inserted as queued with all
\* counters zero while no worker exists yet, the worker is started after
\* that, and the response with the identifier can be sent as soon as the
\* worker is started, whatever the worker has done by then.
C13_Submit ==
  /\ [][gpc' = "rejected" => (jobs' = jobs /\ job' = job /\ wpc' = wpc)]_vars
  /\ [](gpc \in {"idle", "rejected"} => (jobs = {} /\ wpc = "none"))
  /\ [][(gpc \in {"idle", "rejected"} /\ gpc' = "inserted")
          => (jobs' = {J} /\ job' = NewJob /\ wpc' = "none")]_vars
  /\ [](gpc = "inserted" => (wpc = "none" /\ job = NewJob /\ J \in jobs))
  /\ [](wpc # "none" => gpc \in {"started", "returned"})
  /\ [](gpc = "started" => ENABLED Respond)

C13_Witness ==
  /\ gpc = "rejected"
  /\ jobs = {}
  /\ wpc = "none"
  /\ \E s \in Streams : spc[s] = "end"

\* C18: at most one done event is yielded for a job; a stream gets to build
\* the done event only by the os.remove that deletes the archive, and a
\* stream that read status done and does not get there yields the
\* "Could not read ZIP" error event.
C18_OneDoneEvent ==
  /\ [](doneEvents <= 1)
  /\ [][\A s \in Streams :
          (spc'[s] = "mk_done" /\ spc[s] # "mk_done")
            => (spc[s] = "zip_rm" /\ zipf.exists /\ ~zipf'.exists)]_vars
  /\ [][\A s \in Streams :
          (spc[s] \in {"zip_open", "zip_rm"} /\ spc'[s] # spc[s])
            => \/ spc'[s] \in {"zip_rm", "mk_done"}
               \/ (spc'[s] = "y_ziperr" /\ lastEv'[s] = ZipErrorEvent)]_vars
  /\ [][\A s \in Streams :
          (lastEv'[s].type = "done" /\ lastEv[s].type # "done")
            => (spc[s] = "mk_done" /\ lastEv'[s].zip.exists)]_vars

C18_Witness ==
  /\ doneEvents = 1
  /\ \E s, t \in Streams :
       /\ lastEv[s].type = "done"
       /\ lastEv[t] = ZipErrorEvent
       /\ spc[t] = "end"

\* C14: every stored certificate record carries the signature of exactly
\* the four fields stored with it; a lookup of a stored identifier reports
\* found and valid and the stored fields, a lookup of any other identifier
\* reports not found, and a lookup leaves the store as it is.
C14_SignVerifyRoundTrip ==
  /\ [](\A r \in iss.db : r.signature = sign_certificate(LookupData(r), SECRET_KEY))
  /\ [](ipc = "verified"
          => /\ lookup.found <=> HasCertificate(iss.db, lookup.cert_id)
             /\ lookup.found
                  => /\ lookup.valid
                     /\ \E r \in iss.db :
                          /\ r.cert_id = lookup.cert_id
                          /\ lookup.certificate =
                               [id |-> r.cert_id, recipient |-> r.name,
                                course |-> r.course, issue_date |-> r.date])
  /\ [][ipc' = "verified" => iss' = iss]_vars

C14_Witness ==
  /\ ipc = "verified"
  /\ lookup.found
  /\ lookup.valid
  /\ lookup.certificate.recipient # lookup.certificate.course
  /\ Cardinality(iss.db) = 2

\* the stripped, lower-cased form both claims compare names in
Norm(str) == Lower(Strip(str))

\* the first column, in column order, whose name is one of syn; 0 if none
FirstSynonym(cols, syn) ==
  IF \E i \in 1..Len(cols) : Norm(cols[i]) \in syn
    THEN CHOOSE i \in 1..Len(cols) :
           /\ Norm(cols[i]) \in syn
           /\ \A j \in 1..(i - 1) : Norm(cols[j]) \notin syn
    ELSE 0

\* the value C15 says a field has: first synonym column, else position, else default
ClaimedField(cols, row, syn, pos, default) ==
  LET i == FirstSynonym(cols, syn)
  IN  IF i > 0 THEN Cell(row, i)
      ELSE IF Len(cols) >= pos THEN Cell(row, pos) ELSE default

\* C15 as stated: every stored record has, for each of recipient, course
\* and date, the value of the first column whose name is a synonym of the
\* field, or else the value of the 1st / 2nd / 3rd column, or else, for the
\* date, the current date.
C15_FirstMatchWins ==
  \A r \in iss.db :
    LET row == df.rows[r.cert_id]
    IN  /\ r.name = ClaimedField(df.columns, row, NameSynonyms, 1, Unknown)
        /\ r.course = ClaimedField(df.columns, row, CourseSynonyms, 2, Unknown)
        /\ r.date = ClaimedField(df.columns, row, DateSynonyms, 3, Today)

\* the columns a key matches, case-insensitively and trimmed
MatchingColumns(cols, key) == {i \in 1..Len(cols) : Norm(cols[i]) = Norm(key)}

\* the pairs (placeholder, position of its column) of a mapping
MatchedPositions(cols, m) ==
  {<<m.matched[i].placeholder,
     CHOOSE c \in 1..Len(cols) : cols[c] = m.matched[i].column>> :
     i \in 1..Len(m.matched)}

LowerColumns(cols) == [i \in 1..Len(cols) |-> Lower(cols[i])]

\* C16 as stated: a key with a matching column is paired once, with the
\* first matching column; every key is in exactly one of matched and
\* unmatched; and lower-casing the column names pairs the same keys with
\* the columns at the same positions.
C16_FirstColumnWins ==
  ipc = "analyzed" =>
    /\ \A k \in 1..Len(mapped.keys) :
         LET key == mapped.keys[k]
             hits == {i \in 1..Len(mapped.matched) : mapped.matched[i].placeholder = key}
             miss == {i \in 1..Len(mapped.unmatched) : mapped.unmatched[i] = key}
             cols == MatchingColumns(df.columns, key)
         IN  /\ Cardinality(hits) + Cardinality(miss) = 1
             /\ cols = {} <=> hits = {}
             /\ \A i \in hits :
                  /\ cols # {}
                  /\ mapped.matched[i].column =
                       df.columns[CHOOSE c \in cols : \A d \in cols : c <= d]
    /\ Injective(LowerColumns(df.columns))
         => MatchedPositions(LowerColumns(df.columns),
                             compute_mapping(LowerColumns(df.columns), mapped.keys))
              = MatchedPositions(df.columns, mapped)

\* C17 as stated: no two entries of the job's archive have the same name.
C17_UniqueEntryNames ==
  \A i, j \in 1..Len(iss.arc) : i # j => iss.arc[i] # iss.arc[j]

\* C20 as stated: when the loop has ended, the store holds as many records
\* of this job as rows succeeded, and none for a row in the errors list
\* (the identifier of the record of row n is n).
C20_StoredOnlyOnSuccess ==
  ipc = "issued" =>
    /\ Cardinality(iss.db) = iss.success_count
    /\ \A e \in 1..Len(iss.errors) : ~HasCertificate(iss.db, iss.errors[e][1])
====
